---- MODULE Spec2Model ----
(***************************************************************************)
(* Model of internal/reconcile/release.go of the helm-controller: the      *)
(* observedReleases collector, recordOnObject (folding observations into   *)
(* Status.History) and summarize / conditionallyDeleteRemediated (the      *)
(* Ready condition composed out of Remediated, TestSuccess and Released).  *)
(***************************************************************************)
EXTENDS Integers, Sequences, FiniteSets, TLC

VARIABLES
    conditions,   \* req.Object.Status.Conditions, a slice of metav1.Condition
    generation,   \* req.Object.Generation
    test,         \* req.Object.GetTest(): [Enable, IgnoreFailures]
    History,      \* req.Object.Status.History, a slice of Snapshots
    observed,     \* the observedReleases map of the running action
    lastOp,       \* the operation that produced the current state
    pre,          \* Status.Conditions as they were when the last summarize began
    sortedSlice,  \* conds in the last summarize, as sort.SliceStable left it
    lastWrite,    \* per version, the last release the running action wrote
    preHistory,   \* Status.History as it was when the last recordOnObject began
    preObserved,  \* the observedReleases map the last recordOnObject was given
    monotone      \* no release was written with a version lower than an earlier one

vars == <<conditions, generation, test, History, observed, lastOp, pre,
          sortedSlice, lastWrite, preHistory, preObserved, monotone>>

condVars == <<conditions, generation, test, pre, sortedSlice>>
histVars == <<History, observed, lastWrite, preHistory, preObserved, monotone>>

-----------------------------------------------------------------------------
(* Bounds of the model. *)

MaxGen == 2
MaxVersion == 3
MaxHistory == 3

-----------------------------------------------------------------------------
(* Conditions. *)

ReadyCondition == "Ready"
StalledCondition == "Stalled"
ReleasedCondition == "Released"
RemediatedCondition == "Remediated"
TestSuccessCondition == "TestSuccess"

ConditionTrue == "True"
ConditionFalse == "False"
ConditionUnknown == "Unknown"

Statuses == {ConditionTrue, ConditionFalse, ConditionUnknown}

\* The reason and message an actor gives a condition of type t and status s.
\* They differ for every (type, status), so that the origin of the reason and
\* message copied into Ready can be told.
Reason(t, s) == <<t, s, "reason">>
Message(t, s) == <<t, s, "message">>

Cond(t, s, g) ==
    [type |-> t, status |-> s, reason |-> Reason(t, s),
     message |-> Message(t, s), observedGeneration |-> g]

\* The nil *metav1.Condition.
NoCond == [type |-> "nil"]

\* conditions.Get: the condition of type t, or nil.
Get(conds, t) ==
    IF \E i \in 1..Len(conds) : conds[i].type = t
    THEN conds[CHOOSE i \in 1..Len(conds) :
                 /\ conds[i].type = t
                 /\ \A k \in 1..(i - 1) : conds[k].type # t]
    ELSE NoCond

\* conditions.Delete: a new slice without the conditions of type t, the others
\* in their order.
Delete(conds, t) == SelectSeq(conds, LAMBDA c : c.type # t)

\* The order conditions.Set leaves the slice in (lexicographicLess): Ready
\* first, the other types alphabetically.
TypeRank(t) ==
    CASE t = ReadyCondition -> 0
      [] t = ReleasedCondition -> 1
      [] t = RemediatedCondition -> 2
      [] t = StalledCondition -> 3
      [] t = TestSuccessCondition -> 4

RECURSIVE InsertByRank(_, _)
InsertByRank(sorted, c) ==
    IF sorted = <<>> THEN <<c>>
    ELSE IF TypeRank(c.type) < TypeRank(Head(sorted).type)
         THEN <<c>> \o sorted
         ELSE <<Head(sorted)>> \o InsertByRank(Tail(sorted), c)

RECURSIVE SortByRank(_)
SortByRank(conds) ==
    IF conds = <<>> THEN <<>>
    ELSE InsertByRank(SortByRank(SubSeq(conds, 1, Len(conds) - 1)), conds[Len(conds)])

\* conditions.Set: replace the condition of the same type in place, or append
\* it, then sort the slice.
Set(conds, c) ==
    LET exists == \E i \in 1..Len(conds) : conds[i].type = c.type
        first == CHOOSE i \in 1..Len(conds) :
                    /\ conds[i].type = c.type
                    /\ \A k \in 1..(i - 1) : conds[k].type # c.type
    IN SortByRank(IF exists THEN [conds EXCEPT ![first] = c] ELSE Append(conds, c))

-----------------------------------------------------------------------------
(* summarize. *)

\* The priority list of the summary conditions.
sumConds(t) ==
    IF t.Enable /\ ~t.IgnoreFailures
    THEN <<RemediatedCondition, TestSuccessCondition, ReleasedCondition>>
    ELSE <<RemediatedCondition, ReleasedCondition>>

\* inStringSlice: the position of str in the list, and whether it is in it.
\* Position 0 stands for "not in the list"; positions count from 1.
inStringSlice(list, str) ==
    IF \E i \in 1..Len(list) : list[i] = str
    THEN CHOOSE i \in 1..Len(list) : list[i] = str
    ELSE 0

\* less as it would be if a condition outside the list were not sorted after
\* those in it.
lessAmongListed(ci, cj, sc) ==
    LET iPos == inStringSlice(sc, ci.type)
        jPos == inStringSlice(sc, cj.type)
    IN IF iPos = 0 THEN FALSE
       ELSE IF jPos = 0 THEN FALSE
       ELSE (ci.observedGeneration >= cj.observedGeneration) /\ (iPos < jPos)

\* The less function given to sort.SliceStable, on the elements at i and j.
less(ci, cj, sc) ==
    LET iPos == inStringSlice(sc, ci.type)
        jPos == inStringSlice(sc, cj.type)
    IN IF iPos = 0 THEN FALSE
       ELSE IF jPos = 0 THEN TRUE
       ELSE (ci.observedGeneration >= cj.observedGeneration) /\ (iPos < jPos)

\* The inner loop of the insertion sort: the element at j moves left while it
\* is less than its left neighbour.
RECURSIVE MoveLeft(_, _, _)
MoveLeft(s, j, sc) ==
    IF j > 1 /\ less(s[j], s[j - 1], sc)
    THEN MoveLeft([s EXCEPT ![j] = s[j - 1], ![j - 1] = s[j]], j - 1, sc)
    ELSE s

RECURSIVE InsertionSort(_, _, _)
InsertionSort(s, i, sc) ==
    IF i > Len(s) THEN s ELSE InsertionSort(MoveLeft(s, i, sc), i + 1, sc)

\* sort.SliceStable on a slice shorter than its block size of 20: one
\* insertion sort of the whole slice.
SliceStable(conds, sc) == InsertionSort(conds, 2, sc)

\* conditionallyDeleteRemediated as it would be if it asked for a generation
\* strictly higher than that of the Remediated condition.
conditionallyDeleteRemediatedStrict(conds, t) ==
    LET remediated == Get(conds, RemediatedCondition)
        released == Get(conds, ReleasedCondition)
        testSuccess == Get(conds, TestSuccessCondition)
    IN IF remediated = NoCond THEN conds
       ELSE IF released = NoCond \/ released.status # ConditionTrue THEN conds
       ELSE IF ~t.Enable \/ t.IgnoreFailures
            THEN IF /\ released.status = ConditionTrue
                    /\ released.observedGeneration > remediated.observedGeneration
                 THEN Delete(conds, RemediatedCondition)
                 ELSE conds
       ELSE IF testSuccess = NoCond \/ testSuccess.status # ConditionTrue THEN conds
       ELSE IF /\ testSuccess.status = ConditionTrue
               /\ testSuccess.observedGeneration > remediated.observedGeneration
            THEN Delete(conds, RemediatedCondition)
            ELSE conds

\* conditionallyDeleteRemediated: the conditions it leaves on the object.
conditionallyDeleteRemediated(conds, t) ==
    LET remediated == Get(conds, RemediatedCondition)
        released == Get(conds, ReleasedCondition)
        testSuccess == Get(conds, TestSuccessCondition)
    IN IF remediated = NoCond THEN conds
       ELSE IF released = NoCond \/ released.status # ConditionTrue THEN conds
       ELSE IF ~t.Enable \/ t.IgnoreFailures
            THEN IF /\ released.status = ConditionTrue
                    /\ released.observedGeneration >= remediated.observedGeneration
                 THEN Delete(conds, RemediatedCondition)
                 ELSE conds
       ELSE IF testSuccess = NoCond \/ testSuccess.status # ConditionTrue THEN conds
       ELSE IF /\ testSuccess.status = ConditionTrue
               /\ testSuccess.observedGeneration >= remediated.observedGeneration
            THEN Delete(conds, RemediatedCondition)
            ELSE conds

\* afterDeletions as it would be if TestSuccess were also deleted when its
\* failures are ignored.
afterDeletionsOfIgnored(conds, t) ==
    conditionallyDeleteRemediated(
        IF ~t.Enable \/ t.IgnoreFailures
        THEN Delete(conds, TestSuccessCondition) ELSE conds, t)

\* The conditions after the two deletions summarize begins with.
afterDeletions(conds, t) ==
    conditionallyDeleteRemediated(
        IF ~t.Enable THEN Delete(conds, TestSuccessCondition) ELSE conds, t)

\* conds as the sort leaves it; conds[0] is the condition Ready is made from.
sortedConds(conds, t) == SliceStable(afterDeletions(conds, t), sumConds(t))

\* readyStatus as it would be without the override for Remediated.
readyStatusOfFirst(s) == s[1].status

\* The status summarize gives Ready, from the sorted conditions.
readyStatus(s) ==
    IF s[1].type = RemediatedCondition THEN ConditionFalse ELSE s[1].status

\* summarize as it would be if it stamped Ready with the generation of the
\* condition it is made from.
summarizeStampingFirst(conds, t, gen) ==
    LET remaining == afterDeletions(conds, t)
        s == sortedConds(conds, t)
        status == readyStatus(s)
        kept == IF status = ConditionTrue THEN Delete(s, StalledCondition) ELSE s
    IN IF Len(remaining) = 0 THEN remaining
       ELSE Set(kept, [type |-> ReadyCondition,
                       status |-> status,
                       reason |-> s[1].reason,
                       message |-> s[1].message,
                       observedGeneration |-> s[1].observedGeneration])

\* summarize as it would be if it never deleted Stalled.
summarizeKeepingStalled(conds, t, gen) ==
    LET remaining == afterDeletions(conds, t)
        s == sortedConds(conds, t)
    IN IF Len(remaining) = 0 THEN remaining
       ELSE Set(s, [type |-> ReadyCondition,
                    status |-> readyStatus(s),
                    reason |-> s[1].reason,
                    message |-> s[1].message,
                    observedGeneration |-> gen])

\* summarize: the conditions it leaves on the object.
summarize(conds, t, gen) ==
    LET remaining == afterDeletions(conds, t)
        s == sortedConds(conds, t)
        status == readyStatus(s)
        kept == IF status = ConditionTrue THEN Delete(s, StalledCondition) ELSE s
    IN IF Len(remaining) = 0 THEN remaining
       ELSE Set(kept, [type |-> ReadyCondition,
                       status |-> status,
                       reason |-> s[1].reason,
                       message |-> s[1].message,
                       observedGeneration |-> gen])

-----------------------------------------------------------------------------
(* Observed releases and the history of snapshots. *)

ReleaseName == "podinfo"
ReleaseNamespace == "default"
ReleaseStatuses == {"deployed", "failed"}
Versions == 1..MaxVersion

\* The test hooks marker of a snapshot: none, or the hooks a test run recorded.
NoTestHooks == "nil"
SomeTestHooks == "hooks"

\* A release as the Helm storage hands it to the observer.
Release(v, st) ==
    [Name |-> ReleaseName, Namespace |-> ReleaseNamespace, Version |-> v,
     Info |-> [Status |-> st]]

\* release.ObserveRelease: the observation of a release.
ObserveRelease(rls) ==
    [Name |-> rls.Name, Namespace |-> rls.Namespace, Version |-> rls.Version,
     Status |-> rls.Info.Status]

\* release.ObservedToSnapshot: the snapshot of an observation; it has no test
\* hooks.
ObservedToSnapshot(obs) ==
    [Name |-> obs.Name, Namespace |-> obs.Namespace, Version |-> obs.Version,
     Status |-> obs.Status, TestHooks |-> NoTestHooks]

\* Snapshot.Targets: the snapshot is of the release name/namespace at version.
Targets(snap, name, namespace, version) ==
    /\ snap.Name = name
    /\ snap.Namespace = namespace
    /\ snap.Version = version

GetTestHooks(snap) == snap.TestHooks
SetTestHooks(snap, hooks) == [snap EXCEPT !.TestHooks = hooks]

\* observeRelease as it would be if a version already in the map were left as
\* first observed.
observeReleaseOnce(r, rls) ==
    LET obs == ObserveRelease(rls)
    IN [v \in DOMAIN r \cup {obs.Version} |-> IF v \in DOMAIN r THEN r[v] ELSE obs]

\* observeRelease: the map after the callback ran for rls.
observeRelease(r, rls) ==
    LET obs == ObserveRelease(rls)
    IN [v \in DOMAIN r \cup {obs.Version} |-> IF v = obs.Version THEN obs ELSE r[v]]

\* sortedVersions: the keys of the map in descending order.
RECURSIVE Descending(_)
Descending(S) ==
    IF S = {} THEN <<>>
    ELSE LET m == CHOOSE x \in S : \A y \in S : y <= x
         IN <<m>> \o Descending(S \ {m})

sortedVersions(r) == Descending(DOMAIN r)

\* Variants of the loops of recordOnObject, as slips in them would leave them:
\* without the return after a replacement, replacing the last snapshot that
\* targets the version, and without carrying the test hooks over.
RECURSIVE replaceEveryTargeted(_, _, _, _)
replaceEveryTargeted(hist, r, versions, k) ==
    IF k > Len(versions) THEN hist
    ELSE LET ver == versions[k]
             hits == {i \in 1..Len(hist) :
                        Targets(hist[i], r[ver].Name, r[ver].Namespace, r[ver].Version)}
             i == CHOOSE x \in hits : \A y \in hits : x <= y
             newSnap == SetTestHooks(ObservedToSnapshot(r[ver]), GetTestHooks(hist[i]))
         IN replaceEveryTargeted(
                IF hits # {} THEN [hist EXCEPT ![i] = newSnap] ELSE hist,
                r, versions, k + 1)

RECURSIVE replaceLastTargeted(_, _, _, _)
replaceLastTargeted(hist, r, versions, k) ==
    IF k > Len(versions) THEN hist
    ELSE LET ver == versions[k]
             hits == {i \in 1..Len(hist) :
                        Targets(hist[i], r[ver].Name, r[ver].Namespace, r[ver].Version)}
         IN IF hits # {}
            THEN LET i == CHOOSE x \in hits : \A y \in hits : y <= x
                     newSnap == SetTestHooks(ObservedToSnapshot(r[ver]),
                                             GetTestHooks(hist[i]))
                 IN [hist EXCEPT ![i] = newSnap]
            ELSE replaceLastTargeted(hist, r, versions, k + 1)

RECURSIVE replaceFirstTargetedDroppingHooks(_, _, _, _)
replaceFirstTargetedDroppingHooks(hist, r, versions, k) ==
    IF k > Len(versions) THEN hist
    ELSE LET ver == versions[k]
             hits == {i \in 1..Len(hist) :
                        Targets(hist[i], r[ver].Name, r[ver].Namespace, r[ver].Version)}
         IN IF hits # {}
            THEN LET i == CHOOSE x \in hits : \A y \in hits : x <= y
                 IN [hist EXCEPT ![i] = ObservedToSnapshot(r[ver])]
            ELSE replaceFirstTargetedDroppingHooks(hist, r, versions, k + 1)

\* The loops of recordOnObject over versions[1:] and over the history: the
\* first snapshot that targets the version at k is replaced, and the function
\* returns; a version no snapshot targets is passed over.
RECURSIVE replaceFirstTargeted(_, _, _, _)
replaceFirstTargeted(hist, r, versions, k) ==
    IF k > Len(versions) THEN hist
    ELSE LET ver == versions[k]
             hits == {i \in 1..Len(hist) :
                        Targets(hist[i], r[ver].Name, r[ver].Namespace, r[ver].Version)}
         IN IF hits # {}
            THEN LET i == CHOOSE x \in hits : \A y \in hits : x <= y
                     newSnap == SetTestHooks(ObservedToSnapshot(r[ver]),
                                             GetTestHooks(hist[i]))
                 IN [hist EXCEPT ![i] = newSnap]
            ELSE replaceFirstTargeted(hist, r, versions, k + 1)

\* recordOnObject as it would be if it appended the new snapshot to the history
\* instead of prepending it.
recordOnObjectAppending(r, hist) ==
    LET n == Cardinality(DOMAIN r)
        versions == sortedVersions(r)
    IN IF n = 0 THEN hist
       ELSE IF n = 1
            THEN hist \o <<ObservedToSnapshot(r[CHOOSE v \in DOMAIN r : TRUE])>>
       ELSE replaceFirstTargeted(
                hist \o <<ObservedToSnapshot(r[versions[1]])>>, r, versions, 2)

\* recordOnObject: Status.History after the observed releases are recorded.
recordOnObject(r, hist) ==
    LET n == Cardinality(DOMAIN r)
        versions == sortedVersions(r)
    IN IF n = 0 THEN hist
       ELSE IF n = 1
            THEN <<ObservedToSnapshot(r[CHOOSE v \in DOMAIN r : TRUE])>> \o hist
       ELSE replaceFirstTargeted(
                <<ObservedToSnapshot(r[versions[1]])>> \o hist, r, versions, 2)

-----------------------------------------------------------------------------
(* The objects summarize is given. *)

Types == {ReadyCondition, StalledCondition, ReleasedCondition,
          RemediatedCondition, TestSuccessCondition}

TestConfigs == [Enable : BOOLEAN, IgnoreFailures : BOOLEAN]

\* The conditions of type t an object may hold when it is read.
AllowedConds(t) ==
    CASE t = ReleasedCondition ->
            {Cond(t, s, g) : s \in Statuses, g \in 1..MaxGen}
      [] t = RemediatedCondition ->
            {Cond(t, s, g) : s \in {ConditionTrue, ConditionFalse}, g \in 1..MaxGen}
      [] t = TestSuccessCondition ->
            {Cond(t, s, g) : s \in {ConditionTrue, ConditionFalse}, g \in 1..MaxGen}
      [] t = StalledCondition -> {Cond(t, ConditionTrue, MaxGen)}
      [] t = ReadyCondition -> {Cond(t, ConditionTrue, 1)}

\* The sequences of distinct condition types, in every order.
TypeSeqs ==
    {ts \in UNION {[1..k -> Types] : k \in 0..Cardinality(Types)} :
        \A i, j \in 1..Len(ts) : i # j => ts[i] # ts[j]}

\* Status.Conditions as stored on an object: at most one condition per type,
\* in the order ts; of(t) is the condition of type t.
StoredConditions(ts, of) == [i \in 1..Len(ts) |-> of[ts[i]]]

-----------------------------------------------------------------------------
(* The reconciler reads an object and summarizes it, pass after pass. *)

NoObserved == [v \in {} |-> 0]

InitSummarize ==
    /\ \E ts \in TypeSeqs :
         \E rel \in AllowedConds(ReleasedCondition),
            rem \in AllowedConds(RemediatedCondition),
            tst \in AllowedConds(TestSuccessCondition),
            stl \in AllowedConds(StalledCondition),
            rdy \in AllowedConds(ReadyCondition) :
            conditions = StoredConditions(ts,
                (ReleasedCondition :> rel) @@ (RemediatedCondition :> rem) @@
                (TestSuccessCondition :> tst) @@ (StalledCondition :> stl) @@
                (ReadyCondition :> rdy))
    /\ generation = MaxGen
    /\ test \in TestConfigs
    /\ pre = <<>>
    /\ sortedSlice = <<>>
    /\ lastOp = "read"
    /\ History = <<>>
    /\ observed = NoObserved
    /\ lastWrite = NoObserved
    /\ preHistory = <<>>
    /\ preObserved = NoObserved
    /\ monotone = TRUE

Summarize ==
    /\ conditions' = summarize(conditions, test, generation)
    /\ pre' = conditions
    /\ sortedSlice' = sortedConds(conditions, test)
    /\ lastOp' = "summarize"
    /\ UNCHANGED <<generation, test, histVars>>

NextSummarize == Summarize

SpecSummarize == InitSummarize /\ [][NextSummarize]_vars

-----------------------------------------------------------------------------
(* An action writes releases, which the observer collects; the collected    *)
(* releases are then recorded on the object.                                *)

\* The highest version written so far: every write is collected, and the
\* highest version of every collection is recorded.
MaxSeen ==
    LET seen == {History[i].Version : i \in 1..Len(History)} \cup DOMAIN observed
    IN IF seen = {} THEN 0 ELSE CHOOSE x \in seen : \A y \in seen : y <= x

InitRecord ==
    /\ History = <<>>
    /\ observed = NoObserved
    /\ lastWrite = NoObserved
    /\ preHistory = <<>>
    /\ preObserved = NoObserved
    /\ monotone = TRUE
    /\ lastOp = "read"
    /\ conditions = <<>>
    /\ generation = 1
    /\ test = [Enable |-> FALSE, IgnoreFailures |-> FALSE]
    /\ pre = <<>>
    /\ sortedSlice = <<>>

\* The storage calls the observer for a release the action wrote.
ObserveWrite(v, st) ==
    /\ Len(History) < MaxHistory
    /\ observed' = observeRelease(observed, Release(v, st))
    /\ lastWrite' = [w \in DOMAIN lastWrite \cup {v} |->
                        IF w = v THEN Release(v, st) ELSE lastWrite[w]]
    /\ monotone' = (monotone /\ v >= MaxSeen)
    /\ lastOp' = IF v \in DOMAIN observed THEN "observe again" ELSE "observe"
    /\ preHistory' = <<>>
    /\ preObserved' = NoObserved
    /\ UNCHANGED <<History, condVars>>

\* The action is over: its observed releases are recorded, and the map is
\* dropped with the action.
RecordOnObject ==
    /\ Len(History) < MaxHistory
    /\ History' = recordOnObject(observed, History)
    /\ observed' = NoObserved
    /\ lastWrite' = NoObserved
    /\ preHistory' = History
    /\ preObserved' = observed
    /\ lastOp' = "record"
    /\ UNCHANGED <<monotone, condVars>>

\* A test run marks the latest snapshot with the hooks it ran.
RecordTestHooks ==
    /\ observed = NoObserved
    /\ Len(History) > 0
    /\ History[1].Status = "deployed"
    /\ GetTestHooks(History[1]) = NoTestHooks
    /\ History' = [History EXCEPT ![1] = SetTestHooks(History[1], SomeTestHooks)]
    /\ lastOp' = "test"
    /\ preHistory' = <<>>
    /\ preObserved' = NoObserved
    /\ UNCHANGED <<observed, lastWrite, monotone, condVars>>

NextRecord ==
    \/ \E v \in Versions, st \in ReleaseStatuses : ObserveWrite(v, st)
    \/ RecordOnObject
    \/ RecordTestHooks

SpecRecord == InitRecord /\ [][NextRecord]_vars

-----------------------------------------------------------------------------
(* Properties of summarize.  pre holds the conditions a summarize call was  *)
(* given and conditions what it left.                                       *)

Has(conds, t) == Get(conds, t) # NoCond

Summarized == lastOp = "summarize"

TestsDecide == test.Enable /\ ~test.IgnoreFailures

\* A condition of type t with status True and an observed generation not
\* older than that of the Remediated condition.
SucceededSinceRemediated(conds, t) ==
    /\ Has(conds, t)
    /\ Get(conds, t).status = ConditionTrue
    /\ Get(conds, t).observedGeneration >=
            Get(conds, RemediatedCondition).observedGeneration

\* C1: summarize removes an existing Remediated condition only if Released is
\* True at a generation not older than Remediated and, when tests are enabled
\* and their failures not ignored, TestSuccess is True at such a generation
\* too; otherwise Remediated is still present after summarize.
C1_RemediatedRemovedOnlyAfterSuccess ==
    (Summarized /\ Has(pre, RemediatedCondition)
        /\ ~Has(conditions, RemediatedCondition))
    => /\ SucceededSinceRemediated(pre, ReleasedCondition)
       /\ TestsDecide => SucceededSinceRemediated(pre, TestSuccessCondition)

\* C2: with tests enabled and failures not ignored, Released True and
\* TestSuccess False at a generation not older than that of Released, summarize
\* sets Ready to False.
C2_FailedTestNotReady ==
    (/\ Summarized
     /\ TestsDecide
     /\ Has(pre, ReleasedCondition)
     /\ Get(pre, ReleasedCondition).status = ConditionTrue
     /\ Has(pre, TestSuccessCondition)
     /\ Get(pre, TestSuccessCondition).status = ConditionFalse
     /\ Get(pre, TestSuccessCondition).observedGeneration >=
            Get(pre, ReleasedCondition).observedGeneration)
    => /\ Has(conditions, ReadyCondition)
       /\ Get(conditions, ReadyCondition).status = ConditionFalse

\* C3: a second summarize call right after a first one, on an unchanged
\* object, leaves the same Ready condition as the first one left.
C3_SummarizeIdempotent ==
    [][(Summarized /\ Summarize) =>
        Get(conditions', ReadyCondition) = Get(conditions, ReadyCondition)]_vars

\* C10: with tests disabled or their failures ignored, a Remediated condition
\* and Released True at a generation not older than it, one summarize call
\* removes Remediated and sets Ready to True with the reason and message of
\* Released.
C10_RemediationCleared ==
    (/\ Summarized
     /\ ~test.Enable \/ test.IgnoreFailures
     /\ Has(pre, RemediatedCondition)
     /\ SucceededSinceRemediated(pre, ReleasedCondition))
    => /\ ~Has(conditions, RemediatedCondition)
       /\ Has(conditions, ReadyCondition)
       /\ Get(conditions, ReadyCondition).status = ConditionTrue
       /\ Get(conditions, ReadyCondition).reason = Get(pre, ReleasedCondition).reason
       /\ Get(conditions, ReadyCondition).message = Get(pre, ReleasedCondition).message

C10_Witness ==
    /\ Summarized
    /\ test.Enable /\ test.IgnoreFailures
    /\ Has(pre, RemediatedCondition)
    /\ SucceededSinceRemediated(pre, ReleasedCondition)
    /\ Has(pre, TestSuccessCondition)
    /\ Get(pre, TestSuccessCondition).status = ConditionFalse
    /\ ~Has(conditions, RemediatedCondition)

-----------------------------------------------------------------------------
(* Properties of recordOnObject.  preObserved and preHistory hold what a    *)
(* recordOnObject call was given and History what it left.                  *)

Recorded == lastOp = "record"

Size(r) == Cardinality(DOMAIN r)

Highest(r) == CHOOSE v \in DOMAIN r : \A w \in DOMAIN r : w <= v

\* The entries of the earlier history that the call changed; entry i of the
\* earlier history is at i + 1 after the new snapshot is prepended.
Changed == {i \in 1..Len(preHistory) : History[i + 1] # preHistory[i]}

\* The entries of the earlier history with the identity of the observation of
\* version v.
Matching(v) ==
    {i \in 1..Len(preHistory) :
        /\ preHistory[i].Name = preObserved[v].Name
        /\ preHistory[i].Namespace = preObserved[v].Namespace
        /\ preHistory[i].Version = v}

\* The observed versions below the highest that some earlier entry matches.
Matched == {v \in DOMAIN preObserved \ {Highest(preObserved)} : Matching(v) # {}}

\* C4: with two or more observed releases, recordOnObject prepends the
\* snapshot of the highest observed version, the history grows by exactly one
\* entry, and at most one of the earlier entries is changed.
C4_PrependsHighestChangesAtMostOne ==
    (Recorded /\ Size(preObserved) >= 2)
    => /\ Len(History) = Len(preHistory) + 1
       /\ History[1] = ObservedToSnapshot(preObserved[Highest(preObserved)])
       /\ Cardinality(Changed) <= 1

C4_Witness ==
    /\ Recorded
    /\ Size(preObserved) >= 3
    /\ Cardinality(Matched) >= 2
    /\ Cardinality(Changed) = 1

\* C5: with two or more observed releases, the entry replaced is the first
\* earlier entry matching the highest of the lower observed versions that has
\* a match; every other earlier entry is unchanged, and no entry is inserted
\* for an observed version that has no match.
C5_FirstMatchOfHighestMatchedVersion ==
    (Recorded /\ Size(preObserved) >= 2)
    => /\ Len(History) = Len(preHistory) + 1
       /\ IF Matched = {}
          THEN Changed = {}
          ELSE LET v == CHOOSE x \in Matched : \A y \in Matched : y <= x
                   i == CHOOSE x \in Matching(v) : \A y \in Matching(v) : x <= y
               IN /\ Changed \subseteq {i}
                  /\ History[i + 1].Name = preObserved[v].Name
                  /\ History[i + 1].Namespace = preObserved[v].Namespace
                  /\ History[i + 1].Version = v
                  /\ History[i + 1].Status = preObserved[v].Status

\* An observed version without a match is passed over, and the first of two
\* entries matching a lower version is replaced.
C5_Witness ==
    /\ Recorded
    /\ Size(preObserved) >= 3
    /\ Matched # {}
    /\ \E v \in DOMAIN preObserved \ {Highest(preObserved)} :
          /\ v \notin Matched
          /\ \A w \in Matched : w < v
    /\ \E w \in Matched : Cardinality(Matching(w)) >= 2
    /\ Changed = {1}

\* C6: the snapshot that replaces an earlier entry stays at the entry's place,
\* has the entry's test hooks and is otherwise the snapshot of a new
\* observation of the entry's release version.
C6_ReplacementKeepsTestHooks ==
    (Recorded /\ Size(preObserved) >= 2)
    => /\ Len(History) = Len(preHistory) + 1
       /\ \A i \in Changed :
            /\ GetTestHooks(History[i + 1]) = GetTestHooks(preHistory[i])
            /\ \E v \in DOMAIN preObserved :
                  /\ i \in Matching(v)
                  /\ [History[i + 1] EXCEPT !.TestHooks = NoTestHooks]
                        = ObservedToSnapshot(preObserved[v])

C6_Witness ==
    /\ Recorded
    /\ Size(preObserved) >= 2
    /\ \E i \in Changed : GetTestHooks(History[i + 1]) = SomeTestHooks

\* C7: with one observed release, recordOnObject puts its snapshot first and
\* the earlier entries after it, unchanged and in their order; with none, it
\* leaves the history as it was.
C7_SinglePrependsEmptyKeeps ==
    /\ (Recorded /\ Size(preObserved) = 1)
       => /\ Len(History) = Len(preHistory) + 1
          /\ \A v \in DOMAIN preObserved :
                History[1] = ObservedToSnapshot(preObserved[v])
          /\ \A i \in 1..Len(preHistory) : History[i + 1] = preHistory[i]
    /\ (Recorded /\ Size(preObserved) = 0) => History = preHistory

C7_Witness ==
    /\ Recorded
    /\ Size(preObserved) = 1
    /\ Len(preHistory) >= 2
    /\ History[1] # History[2]

\* C8: the history never holds two snapshots of the same release name,
\* namespace and version.
C8_HistoryUnique ==
    \A i, j \in 1..Len(History) :
        (/\ History[i].Name = History[j].Name
         /\ History[i].Namespace = History[j].Namespace
         /\ History[i].Version = History[j].Version) => i = j

\* C9: while no release is written with a version lower than an earlier one,
\* the first snapshot of the history has the greatest version in it.
C9_NewestFirst ==
    monotone => \A i \in 1..Len(History) : History[i].Version <= History[1].Version

C9_Witness ==
    /\ monotone
    /\ Recorded
    /\ Size(preObserved) >= 2
    /\ Len(History) >= 3
    /\ History[1].Version > History[2].Version

-----------------------------------------------------------------------------
(* Further properties of summarize.  sortedSlice holds conds as the sort of *)
(* the last summarize call left it.                                         *)

Ready == Get(conditions, ReadyCondition)

\* C11: with tests disabled and a Remediated condition of a generation
\* strictly higher than that of Released True, summarize keeps Remediated,
\* makes Ready from it whatever the stored order, and sets Ready to False with
\* its reason and message, whatever its own status.
C11_NewerRemediationDecides ==
    (/\ Summarized
     /\ ~test.Enable
     /\ Has(pre, RemediatedCondition)
     /\ Has(pre, ReleasedCondition)
     /\ Get(pre, ReleasedCondition).status = ConditionTrue
     /\ Get(pre, RemediatedCondition).observedGeneration >
            Get(pre, ReleasedCondition).observedGeneration)
    => /\ Get(conditions, RemediatedCondition) = Get(pre, RemediatedCondition)
       /\ sortedSlice[1] = Get(pre, RemediatedCondition)
       /\ Ready # NoCond
       /\ Ready.status = ConditionFalse
       /\ Ready.reason = Get(pre, RemediatedCondition).reason
       /\ Ready.message = Get(pre, RemediatedCondition).message

\* Remediated is True and stored after Released.
C11_Witness ==
    /\ Summarized
    /\ ~test.Enable
    /\ Len(pre) >= 2
    /\ pre[1].type = ReleasedCondition
    /\ pre[1].status = ConditionTrue
    /\ Has(pre, RemediatedCondition)
    /\ Get(pre, RemediatedCondition).status = ConditionTrue
    /\ Get(pre, RemediatedCondition).observedGeneration > pre[1].observedGeneration
    /\ Ready.status = ConditionFalse

\* C12: after summarize with tests disabled there is no TestSuccess condition;
\* with tests enabled summarize leaves TestSuccess as it was.
C12_TestSuccessDeletedIffDisabled ==
    /\ (Summarized /\ ~test.Enable) => ~Has(conditions, TestSuccessCondition)
    /\ (Summarized /\ test.Enable) =>
            Get(conditions, TestSuccessCondition) = Get(pre, TestSuccessCondition)

C12_Witness ==
    /\ Summarized
    /\ ~test.Enable
    /\ test.IgnoreFailures
    /\ Has(pre, TestSuccessCondition)
    /\ Get(pre, TestSuccessCondition).status = ConditionTrue
    /\ ~Has(conditions, TestSuccessCondition)

\* No condition is left once the stale TestSuccess is deleted (the deletion
\* of Remediated needs a Released condition, which stays).
NothingRemains ==
    \A i \in 1..Len(pre) : pre[i].type = TestSuccessCondition /\ ~test.Enable

\* C13: when a condition remains after the deletions, summarize leaves exactly
\* one Ready condition, of the generation of the object and with the reason
\* and message of the first condition after the sort; when none remains,
\* summarize leaves no condition at all.
C13_ReadyFromFirstAtObjectGeneration ==
    Summarized =>
        IF NothingRemains
        THEN conditions = <<>>
        ELSE /\ Cardinality({i \in 1..Len(conditions) :
                                conditions[i].type = ReadyCondition}) = 1
             /\ Ready.observedGeneration = generation
             /\ sortedSlice # <<>>
             /\ Ready.reason = sortedSlice[1].reason
             /\ Ready.message = sortedSlice[1].message

\* Ready is made from a condition of an older generation than the object's.
C13_Witness ==
    /\ Summarized
    /\ sortedSlice # <<>>
    /\ sortedSlice[1].type = ReleasedCondition
    /\ sortedSlice[1].observedGeneration < generation
    /\ Ready.observedGeneration = generation

\* C14: when summarize sets Ready to True, no Stalled condition is left; when
\* it sets Ready to False or Unknown, a Stalled condition is left as it was.
C14_StalledDeletedIffReady ==
    (Summarized /\ Ready # NoCond)
    => /\ Ready.status = ConditionTrue => ~Has(conditions, StalledCondition)
       /\ Ready.status # ConditionTrue =>
            Get(conditions, StalledCondition) = Get(pre, StalledCondition)

C14_Witness ==
    /\ Summarized
    /\ Has(pre, StalledCondition)
    /\ Ready # NoCond
    /\ Ready.status = ConditionTrue
    /\ ~Has(conditions, StalledCondition)

-----------------------------------------------------------------------------
(* Properties of observeRelease. *)

\* C15: after any calls of the observer the map has one entry for every
\* version written and no other, each the observation of the last release
\* written with that version; so a write leaves the other entries alone.
C15_ObserverKeepsLastWritePerVersion ==
    /\ DOMAIN observed = DOMAIN lastWrite
    /\ \A v \in DOMAIN lastWrite :
        observed[v] = [Name |-> lastWrite[v].Name,
                       Namespace |-> lastWrite[v].Namespace,
                       Version |-> v,
                       Status |-> lastWrite[v].Info.Status]

\* A version was written again while another version is in the map.
C15_Witness ==
    /\ lastOp = "observe again"
    /\ Size(observed) >= 2
    /\ \E v \in DOMAIN observed : observed[v].Status = "failed"

-----------------------------------------------------------------------------
(* Properties of the order summarize sorts the conditions in. *)

\* The types in the priority list of the object.
Listed == {RemediatedCondition, ReleasedCondition}
            \cup (IF TestsDecide THEN {TestSuccessCondition} ELSE {})

\* The place of a type in the priority list: Remediated, TestSuccess, Released.
Priority(t) ==
    CASE t = RemediatedCondition -> 1
      [] t = TestSuccessCondition -> 2
      [] t = ReleasedCondition -> 3

\* The status, reason and message of the Ready condition in conds.
ReadyView(conds) ==
    LET r == Get(conds, ReadyCondition)
    IN IF r = NoCond THEN <<>> ELSE <<r.status, r.reason, r.message>>

\* C16: after the sort, of two conditions in the priority list, one with a
\* generation not lower than the other's and an earlier place in the list
\* comes before the other.
C16_SortedByGenerationAndPriority ==
    Summarized =>
        \A i, j \in 1..Len(sortedSlice) :
            (/\ sortedSlice[i].type \in Listed
             /\ sortedSlice[j].type \in Listed
             /\ sortedSlice[i].observedGeneration >= sortedSlice[j].observedGeneration
             /\ Priority(sortedSlice[i].type) < Priority(sortedSlice[j].type))
            => i < j

\* C17: after the sort, every condition in the priority list comes before
\* every condition outside it; so Ready is made from a condition in the list
\* whenever one is left.
C17_ListedBeforeUnlisted ==
    Summarized =>
        /\ \A i, j \in 1..Len(sortedSlice) :
                (sortedSlice[i].type \in Listed /\ sortedSlice[j].type \notin Listed)
                => i < j
        /\ (\E i \in 1..Len(conditions) : conditions[i].type \in Listed)
            => /\ sortedSlice[1].type \in Listed
               /\ Ready.reason = sortedSlice[1].reason
               /\ Ready.message = sortedSlice[1].message

\* The conditions were stored with Ready and Stalled before the others.
C17_Witness ==
    /\ Summarized
    /\ Len(pre) >= 4
    /\ pre[1].type = StalledCondition
    /\ pre[2].type = ReadyCondition
    /\ sortedSlice[1].type \in Listed
    /\ sortedSlice[2].type \in Listed
    /\ sortedSlice[Len(sortedSlice)].type = ReadyCondition

\* conds with the status of its TestSuccess condition set to st.
WithTestSuccess(conds, st) ==
    [i \in 1..Len(conds) |->
        IF conds[i].type = TestSuccessCondition
        THEN Cond(TestSuccessCondition, st, conds[i].observedGeneration)
        ELSE conds[i]]

\* C18: with tests disabled or their failures ignored, the status, reason and
\* message of Ready are not those of TestSuccess, and are the same whatever
\* the status of TestSuccess.
C18_IgnoredTestSuccessExcluded ==
    (Summarized /\ ~TestsDecide /\ Has(pre, TestSuccessCondition))
    => /\ Ready # NoCond =>
            /\ Ready.reason # Get(pre, TestSuccessCondition).reason
            /\ Ready.message # Get(pre, TestSuccessCondition).message
       /\ \A st \in Statuses :
            ReadyView(summarize(WithTestSuccess(pre, st), test, generation))
                = ReadyView(conditions)

\* The orders the conditions conds can be stored in.
Orders(conds) ==
    {[i \in 1..Len(conds) |-> conds[p[i]]] :
        p \in {q \in [1..Len(conds) -> 1..Len(conds)] :
                    \A i, j \in 1..Len(conds) : i # j => q[i] # q[j]}}

\* C19: the status, reason and message of Ready are the same for every order
\* the conditions are stored in.
C19_OrderIndependent ==
    Summarized =>
        \A other \in Orders(pre) :
            ReadyView(summarize(other, test, generation)) = ReadyView(conditions)

====
